---- MODULE Spec2Model ----
(***************************************************************************)
(* Operator templates of pyvlova/op: linear.py (PlainLinear,               *)
(* PlainBiasedLinear) and pool.py (PlainPool, AdaptivePool, Pool).         *)
(* An operator is constructed from its arguments, which yields its tensor  *)
(* table, its statements and its schedule tree; its statement instances    *)
(* are then executed over the iteration domain in any order the schedule   *)
(* tree permits, under the process-wide trace mode.                        *)
(*                                                                         *)
(* Numbers: inputs are integers; a cell of `out` is an exact fraction      *)
(* <<numerator, denominator>> so that the division of average pooling is   *)
(* modelled by what it does (floating-point rounding is not modelled).     *)
(***************************************************************************)
EXTENDS Integers, Sequences, FiniteSets, TLC

VARIABLES pc, req, op, mode, t, done, acc, err

vars == <<pc, req, op, mode, t, done, acc, err>>

\* ------------------------------------------------------------- bounds
\* batch and channel are 1..MaxBatch
MaxBatch == 1
\* every other size argument (linear channels, heights, widths, kernels) is
\* 1..MaxDim
MaxDim == 2
\* strides are 1..MaxStride
MaxStride == 2
\* pad amounts are 0..MaxPad
MaxPad == 1
\* input numbers are 0..MaxVal
MaxVal == 1
\* an operator is executed only when its domain has at most MaxInstances instances
MaxInstances == 6
\* concrete arrays are bound only when each input tensor has at most MaxCells
\* cells
MaxCells == 2

Batches == 1..MaxBatch
Sizes == 1..MaxDim
Strides == 1..MaxStride
Pads == 0..MaxPad
Values == 0..MaxVal

\* ------------------------------------------------------------- helpers
Range(n) == 0..(n - 1)

IMax(a, b) == IF a >= b THEN a ELSE b

\* the integer points p with 0 <= p[k] < ext[k] for every k
RECURSIVE Box(_)
Box(ext) ==
    IF ext = <<>> THEN {<<>>}
    ELSE {<<a>> \o rest : a \in Range(Head(ext)), rest \in Box(Tail(ext))}

\* the index tuples of a tensor of the given shape
Cells(shape) == Box(shape)

RECURSIVE Product(_)
Product(ext) == IF ext = <<>> THEN 1 ELSE Head(ext) * Product(Tail(ext))

\* exact arithmetic on a cell of out
Num(v) == <<v, 1>>
RAdd(a, v) == <<a[1] + v * a[2], a[2]>>
RDiv(a, k) == <<a[1], a[2] * k>>

\* trace modes: the two the statement bodies name, the reference
\* interpretation, and a mode that is none of the three
TvmMode == "tvm"
AccessMode == "tensor_access"
ReferenceMode == "reference"
UnsetMode == "unset"
TracingModes == {TvmMode, AccessMode}
RecognizedModes == {TvmMode, AccessMode, ReferenceMode}

\* t[name][idx]; a read outside the tensor yields an arbitrary number g
Rd(tensor, idx, g) == IF idx \in DOMAIN tensor THEN tensor[idx] ELSE g

\* t['out'][idx] = v: under a tracing mode the write is only recorded
Store(m, tt, idx, v) ==
    IF m \in TracingModes THEN tt
    ELSE [tt EXCEPT !.out[idx] = v]

\* ------------------------------------------------------------- linear.py
\* schedule(**kwargs): per statement tag the extents of its box constraints
\* (0 <= index < extent), and the tree; the parameters are applied
LinearDomain(a) ==
    [stmt_init |-> <<a.batch, a.out_channel>>,
     stmt_calc |-> <<a.batch, a.out_channel, a.in_channel>>]

LinearSchedule(a) ==
    [domain |-> LinearDomain(a),
     outer |-> [dims |-> <<"n", "o">>, coincident |-> <<1, 1>>],
     sequence |-> <<[filter |-> "stmt_init", coincident |-> <<>>],
                    [filter |-> "stmt_calc", coincident |-> <<1>>]>>]

BiasedLinearTensors(a) ==
    [x |-> <<a.batch, a.in_channel>>,
     weight |-> <<a.out_channel, a.in_channel>>,
     bias |-> <<a.out_channel>>,
     out |-> <<a.batch, a.out_channel>>]

PlainLinearTensors(a) ==
    [x |-> <<a.batch, a.in_channel>>,
     weight |-> <<a.out_channel, a.in_channel>>,
     out |-> <<a.batch, a.out_channel>>]

\* PlainBiasedLinear.statements_factory.stmt_init
BiasedStmtInit(m, tt, o, g) ==
    [reads |-> {<<"bias", <<o[2]>>>>},
     writes |-> {<<"out", o>>},
     t |-> Store(m, tt, o, Num(Rd(tt.bias, <<o[2]>>, g)))]

\* PlainLinear.statements_factory.stmt_init
PlainStmtInit(m, tt, o, g) ==
    [reads |-> {},
     writes |-> {<<"out", o>>},
     t |-> Store(m, tt, o, Num(0))]

\* stmt_calc of both linear operators
\* variant of stmt_calc that drops the accumulator: out = weight * x
LinearStmtCalcNoAccumulate(m, tt, o, r, g) ==
    [reads |-> {<<"out", o>>, <<"weight", <<o[2], r[1]>>>>, <<"x", <<o[1], r[1]>>>>},
     writes |-> {<<"out", o>>},
     t |-> Store(m, tt, o,
                 Num(Rd(tt.weight, <<o[2], r[1]>>, g) * Rd(tt.x, <<o[1], r[1]>>, g)))]

LinearStmtCalc(m, tt, o, r, g) ==
    [reads |-> {<<"out", o>>, <<"weight", <<o[2], r[1]>>>>, <<"x", <<o[1], r[1]>>>>},
     writes |-> {<<"out", o>>},
     t |-> Store(m, tt, o,
                 RAdd(Rd(tt.out, o, Num(g)),
                      Rd(tt.weight, <<o[2], r[1]>>, g) * Rd(tt.x, <<o[1], r[1]>>, g)))]

PlainBiasedLinearOp(given) ==
    [cls |-> "PlainBiasedLinear",
     args |-> given,
     tensors |-> BiasedLinearTensors(given),
     statements |-> {"stmt_init", "stmt_calc"},
     schedule |-> LinearSchedule(given)]

PlainLinearOp(given) ==
    [cls |-> "PlainLinear",
     args |-> given,
     tensors |-> PlainLinearTensors(given),
     statements |-> {"stmt_init", "stmt_calc"},
     schedule |-> LinearSchedule(given)]

\* ------------------------------------------------------------- pool.py
\* schedule(pool_type, **kwargs): per statement tag the extents of its box
\* constraints, and the tree; the parameters are applied
PoolDomain(a) ==
    LET output == <<a.batch, a.channel, a.out_height, a.out_width>>
        calc == output \o <<a.kernel_height, a.kernel_width>>
    IN  IF a.pool_type = "avg"
        THEN [stmt_init |-> output, stmt_div |-> output, stmt_calc |-> calc]
        ELSE [stmt_init |-> output, stmt_calc |-> calc]

\* variant of the tree with the stmt_div filter ahead of the stmt_calc filter
PoolScheduleDivFirst(a) ==
    [domain |-> PoolDomain(a),
     outer |-> [dims |-> <<"n", "c", "h", "w">>, coincident |-> <<1, 1, 1, 1>>],
     sequence |->
        <<[filter |-> "stmt_init", coincident |-> <<>>]>>
        \o (IF a.pool_type = "avg"
            THEN <<[filter |-> "stmt_div", coincident |-> <<>>]>>
            ELSE <<>>)
        \o <<[filter |-> "stmt_calc", coincident |-> <<1, 1>>]>>]

PoolSchedule(a) ==
    [domain |-> PoolDomain(a),
     outer |-> [dims |-> <<"n", "c", "h", "w">>, coincident |-> <<1, 1, 1, 1>>],
     sequence |->
        <<[filter |-> "stmt_init", coincident |-> <<>>],
          [filter |-> "stmt_calc", coincident |-> <<1, 1>>]>>
        \o (IF a.pool_type = "avg"
            THEN <<[filter |-> "stmt_div", coincident |-> <<>>]>>
            ELSE <<>>)]

\* tensors(...)
PoolTensors(a) ==
    [x |-> <<a.batch, a.channel, a.in_height, a.in_width>>,
     out |-> <<a.batch, a.channel, a.out_height, a.out_width>>]

\* statements(...): the names of the statements returned
PoolStatements(a) ==
    {"stmt_init", "stmt_calc"}
    \cup (IF a.pool_type = "avg" THEN {"stmt_div"} ELSE {})

\* statements.stmt_init
PoolStmtInit(a, m, tt, o, g) ==
    LET src == <<o[1], o[2], o[3] * a.stride_height, o[4] * a.stride_height>>
    IN  IF a.pool_type = "max"
        THEN [reads |-> {<<"x", src>>},
              writes |-> {<<"out", o>>},
              t |-> Store(m, tt, o, Num(Rd(tt.x, src, g)))]
        ELSE [reads |-> {},
              writes |-> {<<"out", o>>},
              t |-> Store(m, tt, o, Num(0))]

\* statements.stmt_calc
PoolStmtCalc(a, m, tt, o, r, g) ==
    LET tap == <<o[1], o[2], o[3] * a.stride_height + r[1],
                 o[4] * a.stride_width + r[2]>>
    IN  IF m = TvmMode
        THEN [reads |-> {<<"out", o>>, <<"x", tap>>},
              writes |-> {<<"out", o>>},
              t |-> tt]
        ELSE IF m = AccessMode
        THEN [reads |-> {<<"x", tap>>},
              writes |-> {<<"out", o>>},
              t |-> tt]
        ELSE IF a.pool_type = "max"
        THEN [reads |-> {<<"x", o>>, <<"x", tap>>},
              writes |-> {<<"out", o>>},
              t |-> [tt EXCEPT !.out[o] =
                        Num(IMax(Rd(tt.x, o, g), Rd(tt.x, tap, g)))]]
        ELSE [reads |-> {<<"out", o>>, <<"x", tap>>},
              writes |-> {<<"out", o>>},
              t |-> [tt EXCEPT !.out[o] =
                        RAdd(Rd(tt.out, o, Num(g)), Rd(tt.x, tap, g))]]

\* variant of stmt_div that divides by kernel_height * kernel_height
PoolStmtDivHeightTwice(a, m, tt, o, g) ==
    IF a.pool_type # "avg"
    THEN [reads |-> {}, writes |-> {}, t |-> tt]
    ELSE IF m \in TracingModes
    THEN [reads |-> {<<"out", o>>}, writes |-> {<<"out", o>>}, t |-> tt]
    ELSE [reads |-> {<<"out", o>>},
          writes |-> {<<"out", o>>},
          t |-> [tt EXCEPT !.out[o] =
                    RDiv(Rd(tt.out, o, Num(g)),
                         a.kernel_height * a.kernel_height)]]

\* statements.stmt_div
PoolStmtDiv(a, m, tt, o, g) ==
    IF a.pool_type # "avg"
    THEN [reads |-> {}, writes |-> {}, t |-> tt]
    ELSE IF m = TvmMode
    THEN [reads |-> {<<"out", o>>}, writes |-> {<<"out", o>>}, t |-> tt]
    ELSE IF m = AccessMode
    THEN [reads |-> {<<"out", o>>}, writes |-> {<<"out", o>>}, t |-> tt]
    ELSE [reads |-> {<<"out", o>>},
          writes |-> {<<"out", o>>},
          t |-> [tt EXCEPT !.out[o] =
                    RDiv(Rd(tt.out, o, Num(g)),
                         a.kernel_height * a.kernel_width)]]

\* PlainPool.calculated_args
PlainPoolCalculated(a) ==
    [out_height |-> (a.in_height - a.kernel_height) \div a.stride_height + 1,
     out_width |-> (a.in_width - a.kernel_width) \div a.stride_width + 1]

\* AdaptivePool.calculated_args, evaluated in declaration order
AdaptiveStride(in, out) == in \div out

\* variant of kernel_height that subtracts out_height strides
AdaptiveKernelAllStrides(in, out, stride) == in - out * stride

AdaptiveKernel(in, out, stride) == in - (out - 1) * stride

AdaptivePoolCalculated(a) ==
    LET sh == AdaptiveStride(a.in_height, a.out_height)
        kh == AdaptiveKernel(a.in_height, a.out_height, sh)
        sw == AdaptiveStride(a.in_width, a.out_width)
        kw == AdaptiveKernel(a.in_width, a.out_width, sw)
    IN  [stride_height |-> sh, kernel_height |-> kh,
         stride_width |-> sw, kernel_width |-> kw]

\* an ArgumentedOp with pool.py's factories, its arguments resolved
PoolLeaf(cls, a) ==
    [cls |-> cls,
     args |-> a,
     tensors |-> PoolTensors(a),
     statements |-> PoolStatements(a),
     schedule |-> PoolSchedule(a)]

PlainPoolOp(given) == PoolLeaf("PlainPool", given @@ PlainPoolCalculated(given))

AdaptivePoolOp(given) ==
    PoolLeaf("AdaptivePool", given @@ AdaptivePoolCalculated(given))

\* Padding (pyvlova/op/padding.py): only its output size is used here
PaddingOp(given) ==
    [cls |-> "Padding",
     args |-> given @@
        [out_height |-> given.in_height + given.pad_top + given.pad_bottom,
         out_width |-> given.in_width + given.pad_left + given.pad_right]]

\* variant of the padding test with >= 0 for "is nonzero"
AnyPadNonNegative(g) ==
    g.pad_top >= 0 \/ g.pad_bottom >= 0 \/ g.pad_left >= 0 \/ g.pad_right >= 0

\* `if pad_top or pad_bottom or pad_left or pad_right`
AnyPad(g) == g.pad_top # 0 \/ g.pad_bottom # 0 \/ g.pad_left # 0 \/ g.pad_right # 0

\* Pool.__init__
PoolOp(g) ==
    LET padded == AnyPad(g)
        pad == IF padded
               THEN PaddingOp([batch |-> g.batch, channel |-> g.channel,
                               in_height |-> g.in_height, in_width |-> g.in_width,
                               pad_top |-> g.pad_top, pad_bottom |-> g.pad_bottom,
                               pad_left |-> g.pad_left, pad_right |-> g.pad_right])
               ELSE [cls |-> "None"]
        in_height == IF padded THEN pad.args.out_height ELSE g.in_height
        in_width == IF padded THEN pad.args.out_width ELSE g.in_width
        pool == PlainPoolOp([batch |-> g.batch, channel |-> g.channel,
                             in_height |-> in_height, in_width |-> in_width,
                             kernel_height |-> g.kernel_height,
                             kernel_width |-> g.kernel_width,
                             stride_height |-> g.stride_height,
                             stride_width |-> g.stride_width,
                             pool_type |-> g.pool_type])
    IN  [cls |-> "Pool",
         pad |-> pad,
         pool |-> pool,
         ops |-> (IF padded THEN <<pad>> ELSE <<>>) \o <<pool>>,
         batch |-> pool.args.batch,
         channel |-> pool.args.channel,
         out_height |-> pool.args.out_height,
         out_width |-> pool.args.out_width]

\* ------------------------------------------------------------- the schedule
\* the statement instances of a schedule's domain: the tag, the point of the
\* outer band (o) and the point of the statement's inner band (r)
Instances(sch) ==
    LET k == Len(sch.outer.dims)
    IN  UNION {{[s |-> tag, o |-> SubSeq(p, 1, k), r |-> SubSeq(p, k + 1, Len(p))] :
                    p \in Box(sch.domain[tag])} : tag \in DOMAIN sch.domain}

InstanceCount(sch) ==
    LET tags == DOMAIN sch.domain
        Count[S \in SUBSET tags] ==
            IF S = {} THEN 0
            ELSE LET tag == CHOOSE x \in S : TRUE
                 IN  Product(sch.domain[tag]) + Count[S \ {tag}]
    IN  Count[tags]

\* the position of a statement's filter in the sequence node (0: no filter)
SeqPos(sch, tag) ==
    IF \E k \in 1..Len(sch.sequence) : sch.sequence[k].filter = tag
    THEN CHOOSE k \in 1..Len(sch.sequence) : sch.sequence[k].filter = tag
    ELSE 0

\* the tree orders two instances of one outer-band point by their filters
Before(sch, i1, i2) ==
    i1.o = i2.o /\ SeqPos(sch, i1.s) < SeqPos(sch, i2.s)

\* ------------------------------------------------------------- state machine
Leaves == {"PlainLinear", "PlainBiasedLinear", "PlainPool", "AdaptivePool"}
LinearClasses == {"PlainLinear", "PlainBiasedLinear"}
PoolClasses == {"PlainPool", "AdaptivePool"}
PoolTypes == {"max", "avg"}

NoTensors == [x |-> <<>>, weight |-> <<>>, bias |-> <<>>, out |-> <<>>]

Init ==
    /\ pc = "new"
    /\ req = [cls |-> "none"]
    /\ op = [cls |-> "none"]
    /\ mode = UnsetMode
    /\ t = NoTensors
    /\ done = {}
    /\ acc = {}
    /\ err = "none"

Built(cls, given, o) ==
    /\ req' = [cls |-> cls, given |-> given]
    /\ op' = o
    /\ pc' = "built"
    /\ UNCHANGED <<mode, t, done, acc, err>>

ConstructPlainLinear ==
    /\ pc = "new"
    /\ \E b \in Batches, ic \in Sizes, oc \in Sizes :
            LET given == [batch |-> b, in_channel |-> ic, out_channel |-> oc]
            IN  Built("PlainLinear", given, PlainLinearOp(given))

ConstructPlainBiasedLinear ==
    /\ pc = "new"
    /\ \E b \in Batches, ic \in Sizes, oc \in Sizes :
            LET given == [batch |-> b, in_channel |-> ic, out_channel |-> oc]
            IN  Built("PlainBiasedLinear", given, PlainBiasedLinearOp(given))

\* the arguments of a pooling window: kernel <= input, stride >= 1
PoolGiven ==
    {[batch |-> b, channel |-> c, in_height |-> ih, in_width |-> iw,
      kernel_height |-> kh, kernel_width |-> kw,
      stride_height |-> sh, stride_width |-> sw, pool_type |-> pt] :
        b \in Batches, c \in Batches, ih \in Sizes, iw \in Sizes,
        kh \in Sizes, kw \in Sizes, sh \in Strides, sw \in Strides,
        pt \in PoolTypes}

ConstructPlainPool ==
    /\ pc = "new"
    /\ \E given \in PoolGiven :
            /\ given.kernel_height <= given.in_height
            /\ given.kernel_width <= given.in_width
            /\ Built("PlainPool", given, PlainPoolOp(given))

ConstructAdaptivePool ==
    /\ pc = "new"
    /\ \E b \in Batches, c \in Batches, ih \in Sizes, iw \in Sizes,
           oh \in Sizes, ow \in Sizes, pt \in PoolTypes :
            LET given == [batch |-> b, channel |-> c, in_height |-> ih, in_width |-> iw,
                          out_height |-> oh, out_width |-> ow, pool_type |-> pt]
            IN  Built("AdaptivePool", given, AdaptivePoolOp(given))

ConstructPool ==
    /\ pc = "new"
    /\ \E given \in PoolGiven, pt \in Pads, pb \in Pads, pl \in Pads, pr \in Pads :
            LET g == given @@ [pad_top |-> pt, pad_bottom |-> pb,
                               pad_left |-> pl, pad_right |-> pr]
            IN  /\ given.kernel_height <= given.in_height
                /\ given.kernel_width <= given.in_width
                /\ Built("Pool", g, PoolOp(g))

\* the cells of the largest input tensor of a leaf operator
InputCells(o) ==
    LET names == DOMAIN o.tensors \ {"out"}
        Largest[S \in SUBSET names] ==
            IF S = {} THEN 0
            ELSE LET n == CHOOSE x \in S : TRUE
                 IN  IMax(Product(o.tensors[n]), Largest[S \ {n}])
    IN  Largest[names]

Arrays(o, name, vals) ==
    IF name \in DOMAIN o.tensors THEN [Cells(o.tensors[name]) -> vals] ELSE {<<>>}

Bound(m, tt) ==
    /\ pc' = "bound"
    /\ mode' = m
    /\ t' = tt
    /\ done' = {}
    /\ acc' = {}
    /\ UNCHANGED <<req, op, err>>

\* calc on concrete arrays under mode m: the inputs are arbitrary numbers,
\* out holds whatever the caller's buffer held
BindNumeric(m) ==
    /\ pc = "built"
    /\ op.cls \in Leaves
    /\ InstanceCount(op.schedule) <= MaxInstances
    /\ InputCells(op) <= MaxCells
    /\ \E g0 \in Values :
       \E x \in Arrays(op, "x", Values), w \in Arrays(op, "weight", Values),
          b \in Arrays(op, "bias", Values) :
            Bound(m, [x |-> x, weight |-> w, bias |-> b,
                      out |-> [c \in Cells(op.tensors.out) |-> Num(g0)]])

\* the reference interpretation
BindArrays == BindNumeric(ReferenceMode)

\* the statements run while no recognized trace mode is selected
BindUnrecognized == BindNumeric(UnsetMode)

\* PlainBiasedLinear(batch=1, in_channel=2, out_channel=1) on
\* x=[[1,2]], weight=[[3,4]], bias=[5]
BindExample ==
    /\ pc = "built"
    /\ op.cls = "PlainBiasedLinear"
    /\ op.args = [batch |-> 1, in_channel |-> 2, out_channel |-> 1]
    /\ \E g0 \in Values :
         Bound(ReferenceMode,
               [x |-> (<<0, 0>> :> 1) @@ (<<0, 1>> :> 2),
                weight |-> (<<0, 0>> :> 3) @@ (<<0, 1>> :> 4),
                bias |-> (<<0>> :> 5),
                out |-> (<<0, 0>> :> Num(g0))])

\* the statements are traced: the tensors are placeholders that hold no numbers
BindPlaceholders ==
    /\ pc = "built"
    /\ op.cls \in Leaves
    /\ InstanceCount(op.schedule) <= MaxInstances
    /\ \E m \in TracingModes :
         Bound(m, [x |-> [c \in Cells(op.tensors.x) |-> 0],
                   weight |-> <<>>, bias |-> <<>>,
                   out |-> [c \in Cells(op.tensors.out) |-> Num(0)]])

\* an instance may run once every instance the tree orders before it has run
Ready(inst) ==
    /\ inst.s \in op.statements
    /\ inst \notin done
    /\ \A other \in Instances(op.schedule) :
         Before(op.schedule, other, inst) => other \in done

Ran(inst, res) ==
    /\ t' = res.t
    /\ done' = done \cup {inst}
    /\ acc' = acc \cup {[mode |-> mode, inst |-> inst,
                         reads |-> res.reads, writes |-> res.writes]}
    /\ UNCHANGED <<pc, req, op, mode, err>>

Step(classes, tag, inst) ==
    /\ op.cls \in classes
    /\ inst.s = tag
    /\ Ready(inst)

RunPlainInit ==
    /\ pc = "bound"
    /\ \E inst \in Instances(op.schedule), g \in Values :
        /\ Step({"PlainLinear"}, "stmt_init", inst)
        /\ Ran(inst, PlainStmtInit(mode, t, inst.o, g))

RunBiasedInit ==
    /\ pc = "bound"
    /\ \E inst \in Instances(op.schedule), g \in Values :
        /\ Step({"PlainBiasedLinear"}, "stmt_init", inst)
        /\ Ran(inst, BiasedStmtInit(mode, t, inst.o, g))

RunLinearCalc ==
    /\ pc = "bound"
    /\ \E inst \in Instances(op.schedule), g \in Values :
        /\ Step(LinearClasses, "stmt_calc", inst)
        /\ Ran(inst, LinearStmtCalc(mode, t, inst.o, inst.r, g))

RunPoolInit ==
    /\ pc = "bound"
    /\ \E inst \in Instances(op.schedule), g \in Values :
        /\ Step(PoolClasses, "stmt_init", inst)
        /\ Ran(inst, PoolStmtInit(op.args, mode, t, inst.o, g))

RunPoolCalc ==
    /\ pc = "bound"
    /\ \E inst \in Instances(op.schedule), g \in Values :
        /\ Step(PoolClasses, "stmt_calc", inst)
        /\ Ran(inst, PoolStmtCalc(op.args, mode, t, inst.o, inst.r, g))

RunPoolDiv ==
    /\ pc = "bound"
    /\ \E inst \in Instances(op.schedule), g \in Values :
        /\ Step(PoolClasses, "stmt_div", inst)
        /\ Ran(inst, PoolStmtDiv(op.args, mode, t, inst.o, g))

\* the body of a pool statement, by its tag
PoolBody(a, m, tt, inst, g) ==
    IF inst.s = "stmt_init" THEN PoolStmtInit(a, m, tt, inst.o, g)
    ELSE IF inst.s = "stmt_calc" THEN PoolStmtCalc(a, m, tt, inst.o, inst.r, g)
    ELSE PoolStmtDiv(a, m, tt, inst.o, g)

\* one statement instance is invoked under a mode on scratch tensors and the
\* cells it touches are recorded; acc keeps the records of that instance
TraceStmt ==
    /\ pc = "built"
    /\ op.cls \in PoolClasses
    /\ InstanceCount(op.schedule) <= MaxInstances
    /\ \E m \in RecognizedModes, inst \in Instances(op.schedule) :
        LET g == 0
            tt == [x |-> [c \in Cells(op.tensors.x) |-> 0],
                   weight |-> <<>>, bias |-> <<>>,
                   out |-> [c \in Cells(op.tensors.out) |-> Num(0)]]
            res == PoolBody(op.args, m, tt, inst, g)
        IN  /\ inst.s \in op.statements
            /\ mode' = m
            /\ acc' = {a \in acc : a.inst = inst}
                      \cup {[mode |-> m, inst |-> inst,
                             reads |-> res.reads, writes |-> res.writes]}
            /\ UNCHANGED <<pc, req, op, t, done, err>>

\* ------------------------------------------------------------- specifications
NextConstruct ==
    \/ ConstructPlainLinear
    \/ ConstructPlainBiasedLinear
    \/ ConstructPlainPool
    \/ ConstructAdaptivePool
    \/ ConstructPool

NextLinear ==
    \/ ConstructPlainLinear
    \/ ConstructPlainBiasedLinear
    \/ BindArrays
    \/ BindExample
    \/ RunPlainInit
    \/ RunBiasedInit
    \/ RunLinearCalc

NextPool ==
    \/ ConstructPlainPool
    \/ ConstructAdaptivePool
    \/ BindArrays
    \/ RunPoolInit
    \/ RunPoolCalc
    \/ RunPoolDiv

NextUnset ==
    \/ ConstructPlainPool
    \/ ConstructAdaptivePool
    \/ BindUnrecognized
    \/ RunPoolInit
    \/ RunPoolCalc
    \/ RunPoolDiv

NextSchedule ==
    \/ ConstructPlainLinear
    \/ ConstructPlainBiasedLinear
    \/ ConstructPlainPool
    \/ ConstructAdaptivePool
    \/ BindPlaceholders
    \/ RunPlainInit
    \/ RunBiasedInit
    \/ RunLinearCalc
    \/ RunPoolInit
    \/ RunPoolCalc
    \/ RunPoolDiv

NextTrace ==
    \/ ConstructPlainPool
    \/ ConstructAdaptivePool
    \/ TraceStmt

Next ==
    \/ NextConstruct
    \/ BindArrays
    \/ BindUnrecognized
    \/ BindExample
    \/ BindPlaceholders
    \/ RunPlainInit
    \/ RunBiasedInit
    \/ RunLinearCalc
    \/ RunPoolInit
    \/ RunPoolCalc
    \/ RunPoolDiv
    \/ TraceStmt

SpecConstruct == Init /\ [][NextConstruct]_vars
SpecLinear == Init /\ [][NextLinear]_vars
SpecPool == Init /\ [][NextPool]_vars
SpecUnset == Init /\ [][NextUnset]_vars
SpecSchedule == Init /\ [][NextSchedule]_vars
SpecTrace == Init /\ [][NextTrace]_vars
Spec == Init /\ [][Next]_vars

\* ------------------------------------------------------------- properties
Finished == pc = "bound" /\ done = Instances(op.schedule)

\* sum over 0 <= i < k of weight[o, i] * x[n, i]
RECURSIVE Dot(_, _, _, _)
Dot(tt, n, o, k) ==
    IF k = 0 THEN 0
    ELSE tt.weight[<<o, k - 1>>] * tt.x[<<n, k - 1>>] + Dot(tt, n, o, k - 1)

\* the cells of x under the kernel window of output cell o
Window(a, o) ==
    {<<o[1], o[2], o[3] * a.stride_height + i, o[4] * a.stride_width + j>> :
        i \in Range(a.kernel_height), j \in Range(a.kernel_width)}

RECURSIVE SumAt(_, _)
SumAt(f, S) ==
    IF S = {} THEN 0
    ELSE LET c == CHOOSE c \in S : TRUE IN f[c] + SumAt(f, S \ {c})

MaxAt(f, S) == CHOOSE v \in {f[c] : c \in S} : \A c \in S : f[c] <= v

\* C1: once every stmt_init and stmt_calc instance of a linear operator has
\* run in reference-interpretation mode, in any order the sequence permits,
\* out[n,o] = b(o) + sum_i weight[o,i]*x[n,i], with b(o) = 0 for PlainLinear
\* and bias[o] for PlainBiasedLinear.
C1_LinearResult ==
    (Finished /\ op.cls \in LinearClasses /\ mode = ReferenceMode) =>
        \A c \in Cells(op.tensors.out) :
            t.out[c] =
                Num((IF op.cls = "PlainBiasedLinear" THEN t.bias[<<c[2]>>] ELSE 0)
                    + Dot(t, c[1], c[2], op.args.in_channel))

\* x=[[1,2]], weight=[[3,4]], bias=[5] has been run to the end: out=[[16]]
C1_Witness ==
    /\ Finished
    /\ op.cls = "PlainBiasedLinear"
    /\ t.x = (<<0, 0>> :> 1) @@ (<<0, 1>> :> 2)
    /\ t.weight[<<0, 1>>] = 4
    /\ t.out[<<0, 0>>] = Num(16)

\* C2: once every instance of a PlainPool with pool_type='max' has run in
\* reference-interpretation mode, out[n,c,h,w] is the maximum of x over the
\* kernel window of (n,c,h,w).
C2_MaxPoolResult ==
    (Finished /\ op.cls = "PlainPool" /\ op.args.pool_type = "max"
        /\ mode = ReferenceMode) =>
        \A c \in Cells(op.tensors.out) :
            t.out[c] = Num(MaxAt(t.x, Window(op.args, c)))

\* C3: a pool statement instance reads the same cells and writes the same
\* cell under each of the three trace modes.
C3_SameAccessAllModes ==
    \A a \in acc, b \in acc :
        (op.cls \in PoolClasses /\ a.inst = b.inst) =>
            (a.reads = b.reads /\ a.writes = b.writes)

\* C4: the calculated arguments of AdaptivePool are
\* stride = in // out and kernel = in - (out-1)*stride, with 0 < kernel <= in,
\* for height and for width.
C4_AdaptiveArgs ==
    (pc = "built" /\ op.cls = "AdaptivePool") =>
        LET g == req.given
            a == op.args
        IN  /\ a.stride_height = g.in_height \div g.out_height
            /\ a.kernel_height = g.in_height - (g.out_height - 1) * a.stride_height
            /\ 0 < a.kernel_height /\ a.kernel_height <= g.in_height
            /\ a.stride_width = g.in_width \div g.out_width
            /\ a.kernel_width = g.in_width - (g.out_width - 1) * a.stride_width
            /\ 0 < a.kernel_width /\ a.kernel_width <= g.in_width

\* an AdaptivePool whose input height its output height divides, and whose
\* output width exceeds its input width
C4_Witness ==
    /\ pc = "built"
    /\ op.cls = "AdaptivePool"
    /\ req.given.in_height = 2 /\ req.given.out_height = 2
    /\ req.given.in_width = 1 /\ req.given.out_width = 2
    /\ op.args.stride_width = 0

\* C5: once every instance of an average pool has run in schedule order in
\* reference-interpretation mode, out[n,c,h,w] is the sum of the window of x
\* over exactly kernel_height*kernel_width, whatever the position: the
\* division was applied once.
C5_AvgPoolResult ==
    (Finished /\ op.cls \in PoolClasses /\ op.args.pool_type = "avg"
        /\ mode = ReferenceMode) =>
        \A c \in Cells(op.tensors.out) :
            t.out[c] = <<SumAt(t.x, Window(op.args, c)),
                         op.args.kernel_height * op.args.kernel_width>>

\* an average over a window of two cells that sum to 1 has been computed
C5_Witness ==
    /\ Finished
    /\ op.cls \in PoolClasses
    /\ op.args.pool_type = "avg"
    /\ mode = ReferenceMode
    /\ op.args.kernel_height * op.args.kernel_width = 2
    /\ t.out[<<0, 0, 0, 0>>] = <<1, 2>>

\* the arguments a Pool hands to its pooling stage when nothing is padded
DirectPoolGiven(g) ==
    [batch |-> g.batch, channel |-> g.channel,
     in_height |-> g.in_height, in_width |-> g.in_width,
     kernel_height |-> g.kernel_height, kernel_width |-> g.kernel_width,
     stride_height |-> g.stride_height, stride_width |-> g.stride_width,
     pool_type |-> g.pool_type]

\* C6: a Pool with all four pad amounts zero has one child, the PlainPool
\* built from the same arguments (same tensors, statements and schedule), and
\* no pad; a padding child appears, before the pool child, only when some pad
\* amount is nonzero.
C6_PoolComposition ==
    (pc = "built" /\ op.cls = "Pool") =>
        LET g == req.given
            zero == g.pad_top = 0 /\ g.pad_bottom = 0
                    /\ g.pad_left = 0 /\ g.pad_right = 0
        IN  /\ zero => /\ op.pad = [cls |-> "None"]
                       /\ op.ops = <<PlainPoolOp(DirectPoolGiven(g))>>
            /\ (\E k \in 1..Len(op.ops) : op.ops[k].cls = "Padding") =>
                    /\ ~zero
                    /\ Len(op.ops) = 2
                    /\ op.ops[1].cls = "Padding"
                    /\ op.ops[2].cls = "PlainPool"

\* a Pool without padding over a 2x2 input has been constructed
C6_Witness ==
    /\ pc = "built"
    /\ op.cls = "Pool"
    /\ req.given.pad_top = 0 /\ req.given.pad_bottom = 0
    /\ req.given.pad_left = 0 /\ req.given.pad_right = 0
    /\ req.given.in_height = 2 /\ req.given.in_width = 2
    /\ Len(op.ops) = 1

\* C7: a stmt_calc or stmt_div body invoked while the trace mode is not a
\* recognized one fails with StatementModeMismatch and writes no cell.
C7_UnrecognizedModeFails ==
    \A a \in acc :
        (op.cls \in PoolClasses /\ a.mode \notin RecognizedModes
            /\ a.inst.s \in {"stmt_calc", "stmt_div"}) =>
            (err = "StatementModeMismatch" /\ a.writes = {})

\* C8: in every order the schedule trees permit, stmt_init of an output cell
\* runs before every stmt_calc of the cell, and stmt_div (pool_type 'avg')
\* after every stmt_calc of the cell; for another pool_type there is no
\* stmt_div in the domain or in the sequence.
C8_SequenceOrder ==
    pc = "bound" =>
        /\ \A inst \in done :
             inst.s = "stmt_calc" =>
                [s |-> "stmt_init", o |-> inst.o, r |-> <<>>] \in done
        /\ \A inst \in done :
             inst.s = "stmt_div" =>
                /\ op.cls \in PoolClasses
                /\ op.args.pool_type = "avg"
                /\ \A c \in Instances(op.schedule) :
                     (c.s = "stmt_calc" /\ c.o = inst.o) => c \in done
        /\ (op.cls \in PoolClasses /\ op.args.pool_type # "avg") =>
                /\ "stmt_div" \notin DOMAIN op.schedule.domain
                /\ \A k \in 1..Len(op.schedule.sequence) :
                     op.schedule.sequence[k].filter # "stmt_div"
                /\ "stmt_div" \notin op.statements

\* an average pool with a window of two cells has run stmt_div
C8_Witness ==
    /\ pc = "bound"
    /\ op.cls \in PoolClasses
    /\ op.args.pool_type = "avg"
    /\ op.args.kernel_height * op.args.kernel_width = 2
    /\ [s |-> "stmt_div", o |-> <<0, 0, 0, 0>>, r |-> <<>>] \in done

\* two instances differ in the coordinate of a band dimension flagged
\* coincident: a dimension of the outer band, or a dimension of the inner
\* band of their statement at one point of the outer band
DifferOnCoincident(sch, i1, i2) ==
    \/ \E d \in 1..Len(sch.outer.dims) :
         sch.outer.coincident[d] = 1 /\ i1.o[d] # i2.o[d]
    \/ /\ i1.s = i2.s
       /\ i1.o = i2.o
       /\ \E d \in 1..Len(i1.r) :
            sch.sequence[SeqPos(sch, i1.s)].coincident[d] = 1 /\ i1.r[d] # i2.r[d]

Conflict(a, b) ==
    \/ a.writes \cap (b.reads \cup b.writes) # {}
    \/ b.writes \cap (a.reads \cup a.writes) # {}

\* C9: two statement instances that differ in the coordinate of a coincident
\* band dimension never access one tensor cell with one of the accesses a
\* write.
C9_NoRaceOnCoincident ==
    pc = "bound" =>
        \A a \in acc, b \in acc :
            DifferOnCoincident(op.schedule, a.inst, b.inst) => ~Conflict(a, b)

\* C10: every cell a PlainPool statement reads or writes lies inside the
\* declared shape of its tensor.
C10_AccessesInBounds ==
    (pc = "bound" /\ op.cls = "PlainPool") =>
        \A a \in acc :
            \A c \in a.reads \cup a.writes : c[2] \in Cells(op.tensors[c[1]])

====
